---- MODULE Spec2Model ----
(***************************************************************************)
(* RestClient (rest_client/client.py): a thin REST/JSON client on top of   *)
(* python-requests.  The model covers the constructor, _url_join, call,    *)
(* errorlog and error_from_response.                                       *)
(*                                                                         *)
(* Text (URLs, serialized JSON) is a sequence of one-character strings.    *)
(* A python value whose type matters is a tagged record                    *)
(* [kind |-> ..., val |-> ...].  A python dict is a function whose domain  *)
(* is the set of its keys.  Dicts that the caller owns and passes by       *)
(* reference (header mappings) live in `heap`.                             *)
(***************************************************************************)
EXTENDS Integers, Sequences, FiniteSets, TLC

VARIABLES
    base_url,         \* self.base_url
    default_options,  \* self.default_options (header dicts held by reference)
    requests_legacy,  \* self.requests_legacy
    options,          \* the options argument the client was constructed with
    heap,             \* header dicts owned by the caller, by object identity
    pending,          \* segments the caller is about to call with, or None
    last              \* the latest call: its arguments and everything it did

vars == <<base_url, default_options, requests_legacy, options, heap, pending, last>>

(***************************************************************************)
(* Bounds of the model.                                                    *)
(***************************************************************************)
MaxTail == 3    \* characters of a base URL after scheme://host
MaxSegs == 2    \* segments of one call

(***************************************************************************)
(* Python values.                                                          *)
(***************************************************************************)
None == [kind |-> "None"]
Some(x) == [kind |-> "Some", val |-> x]
PyInt(n) == [kind |-> "int", val |-> n]
PyStr(s) == [kind |-> "str", val |-> s]
PyList(s) == [kind |-> "list", val |-> s]
PyTuple(s) == [kind |-> "tuple", val |-> s]

EmptyDict == [k \in {} |-> None]

\* dict.update(): the entries of b overlaid on a copy of a.
DictUpdate(a, b) ==
    [k \in (DOMAIN a) \cup (DOMAIN b) |-> IF k \in DOMAIN b THEN b[k] ELSE a[k]]

\* dict.pop(key) as far as the remaining dict goes.
DictWithout(a, key) == [k \in (DOMAIN a) \ {key} |-> a[k]]

(***************************************************************************)
(* Text helpers.                                                           *)
(***************************************************************************)
\* str.find(c): 1-based position of the first c at or after `from`, 0 if none.
FindFrom(s, cs, from) ==
    LET hits == {i \in from..Len(s) : s[i] \in cs}
    IN  IF hits = {} THEN 0 ELSE CHOOSE i \in hits : \A j \in hits : i <= j

Find(s, c) == FindFrom(s, {c}, 1)

Tail2(s, i) == SubSeq(s, i, Len(s))    \* s[i-1:] in python terms

Digit(d) ==
    CASE d = 0 -> "0" [] d = 1 -> "1" [] d = 2 -> "2" [] d = 3 -> "3"
      [] d = 4 -> "4" [] d = 5 -> "5" [] d = 6 -> "6" [] d = 7 -> "7"
      [] d = 8 -> "8" [] d = 9 -> "9"

RECURSIVE NatToText(_)
NatToText(n) == IF n < 10 THEN <<Digit(n)>> ELSE NatToText(n \div 10) \o <<Digit(n % 10)>>

\* str(int)
IntToText(n) == IF n < 0 THEN <<"-">> \o NatToText(-n) ELSE NatToText(n)

DigitChars == {"0", "1", "2", "3", "4", "5", "6", "7", "8", "9"}
UpperChars == {"H", "T", "P"}
LetterChars == {"a", "b", "h", "t", "p", "x"} \cup UpperChars
\* urlparse.scheme_chars: letters, digits and "+-."
SchemeChars == LetterChars \cup DigitChars \cup {"+", "-", "."}

LowerChar(c) ==
    CASE c = "H" -> "h" [] c = "T" -> "t" [] c = "P" -> "p" [] OTHER -> c

LowerText(s) == [i \in 1..Len(s) |-> LowerChar(s[i])]

HttpText == <<"h", "t", "t", "p">>

(***************************************************************************)
(* urlparse.urlsplit / urlunsplit, as _url_join uses them.                 *)
(***************************************************************************)
\* The scheme test of urlsplit, given the position i of the first ":":
\* that position when what precedes it is a scheme, else 0.
SchemeEndAt(url, i) ==
    IF i < 2 THEN 0
    ELSE IF SubSeq(url, 1, i - 1) = HttpText THEN i
    ELSE IF \E j \in 1..(i - 1) : url[j] \notin SchemeChars THEN 0
    ELSE IF i = Len(url) \/ (\E j \in (i + 1)..Len(url) : url[j] \notin DigitChars) THEN i
    ELSE 0

SchemeEnd(url) == SchemeEndAt(url, Find(url, ":"))

\* urlsplit, statement by statement: each step splits what the step before
\* left over.
SplitQueryAt(scheme, netloc, u, fragment, q) ==
    [scheme |-> scheme, netloc |-> netloc,
     path |-> IF q = 0 THEN u ELSE SubSeq(u, 1, q - 1),
     query |-> IF q = 0 THEN <<>> ELSE Tail2(u, q + 1),
     fragment |-> fragment]

SplitQuery(scheme, netloc, u, fragment) ==
    SplitQueryAt(scheme, netloc, u, fragment, Find(u, "?"))

SplitFragmentAt(scheme, netloc, u, f) ==
    IF f = 0 THEN SplitQuery(scheme, netloc, u, <<>>)
    ELSE SplitQuery(scheme, netloc, SubSeq(u, 1, f - 1), Tail2(u, f + 1))

SplitFragment(scheme, netloc, u) == SplitFragmentAt(scheme, netloc, u, Find(u, "#"))

\* url[:2] == '//', for a url of any length
StartsWithTwoSlashes(url) == Len(url) >= 2 /\ url[1] = "/" /\ url[2] = "/"

\* _splitnetloc(url, 2), given the position d of the first of "/?#" after "//".
SplitNetlocAt(scheme, u, d) ==
    IF d = 0 THEN SplitFragment(scheme, Tail2(u, 3), <<>>)
    ELSE SplitFragment(scheme, SubSeq(u, 3, d - 1), Tail2(u, d))

SplitNetloc(scheme, u) ==
    IF StartsWithTwoSlashes(u)
    THEN SplitNetlocAt(scheme, u, FindFrom(u, {"/", "?", "#"}, 3))
    ELSE SplitFragment(scheme, <<>>, u)

SplitSchemeAt(url, i) ==
    IF i > 0 THEN SplitNetloc(LowerText(SubSeq(url, 1, i - 1)), Tail2(url, i + 1))
    ELSE SplitNetloc(<<>>, url)

UrlSplit(url) == SplitSchemeAt(url, SchemeEnd(url))

\* urlparse.uses_netloc, restricted to the schemes of the model.
UsesNetloc == {HttpText}

WithFragment(u, fragment) == IF fragment # <<>> THEN u \o <<"#">> \o fragment ELSE u

WithQuery(u, query) == IF query # <<>> THEN u \o <<"?">> \o query ELSE u

WithScheme(scheme, u) == IF scheme # <<>> THEN scheme \o <<":">> \o u ELSE u

WithNetloc(scheme, netloc, path) ==
    IF netloc # <<>>
       \/ (scheme # <<>> /\ scheme \in UsesNetloc /\ ~StartsWithTwoSlashes(path))
    THEN <<"/", "/">> \o netloc
         \o (IF path # <<>> /\ path[1] # "/" THEN <<"/">> \o path ELSE path)
    ELSE path

UrlUnsplit(scheme, netloc, path, query, fragment) ==
    WithFragment(WithQuery(WithScheme(scheme, WithNetloc(scheme, netloc, path)), query),
                 fragment)

\* A join that puts a "/" before every relative part, whatever the path so
\* far ends in.
RECURSIVE PosixJoinAlwaysSlash(_, _)
PosixJoinAlwaysSlash(a, p) ==
    IF p = <<>> THEN a
    ELSE PosixJoinAlwaysSlash(IF Head(p) # <<>> /\ Head(p)[1] = "/" THEN Head(p)
                              ELSE a \o <<"/">> \o Head(p),
                              Tail(p))

\* posixpath.join: one part b joined to the path a.
PosixJoinOne(a, b) ==
    IF b # <<>> /\ b[1] = "/" THEN b
    ELSE IF a = <<>> \/ a[Len(a)] = "/" THEN a \o b
    ELSE a \o <<"/">> \o b

\* posixpath.join(a, *p)
RECURSIVE PosixJoin(_, _)
PosixJoin(a, p) == IF p = <<>> THEN a ELSE PosixJoin(PosixJoinOne(a, Head(p)), Tail(p))

\* str(x) of one segment
Str(x) == IF x.kind = "int" THEN IntToText(x.val) ELSE x.val

\* _url_join after urlsplit: default path, join, urlunsplit.
UrlJoinSplit(s, args) ==
    UrlUnsplit(s.scheme, s.netloc,
               PosixJoin(IF Len(s.path) # 0 THEN s.path ELSE <<"/">>,
                         [i \in 1..Len(args) |-> Str(args[i])]),
               s.query, s.fragment)

\* RestClient._url_join(base, *args)
UrlJoin(base, args) == UrlJoinSplit(UrlSplit(base), args)

(***************************************************************************)
(* json.dumps, for the payloads of the model.                              *)
(***************************************************************************)
EscapeChar(c) ==
    IF c = "\"" THEN <<"\\", "\"">> ELSE IF c = "\\" THEN <<"\\", "\\">> ELSE <<c>>

RECURSIVE EscapeText(_)
EscapeText(s) == IF s = <<>> THEN <<>> ELSE EscapeChar(Head(s)) \o EscapeText(Tail(s))

RECURSIVE JsonDumps(_)
RECURSIVE JsonDumpsItems(_)
JsonDumpsItems(items) ==
    IF items = <<>> THEN <<>>
    ELSE IF Len(items) = 1 THEN JsonDumps(items[1])
    ELSE JsonDumps(items[1]) \o <<",", " ">> \o JsonDumpsItems(Tail(items))

JsonDumps(v) ==
    CASE v.kind = "int" -> IntToText(v.val)
      [] v.kind = "str" -> <<"\"">> \o EscapeText(v.val) \o <<"\"">>
      [] v.kind = "list" -> <<"[">> \o JsonDumpsItems(v.val) \o <<"]">>
      [] v.kind = "None" -> <<"n", "u", "l", "l">>

(***************************************************************************)
(* Header dicts: passed by reference (an object of the heap) or written    *)
(* inline in the call (an object nobody else holds).                       *)
(***************************************************************************)
Ref(i) == [kind |-> "ref", val |-> i]
Inline(d) == [kind |-> "dict", val |-> d]

Resolve(x, h) == IF x.kind = "ref" THEN h[x.val] ELSE x.val

\* An options dict with its header dict replaced by that dict's contents.
Deep(opts, h) ==
    [k \in DOMAIN opts |-> IF k = "headers" THEN Resolve(opts[k], h) ELSE opts[k]]

ContentTypeJson == [k \in {"Content-Type"} |-> "application/json"]

(***************************************************************************)
(* RestClient.__init__                                                     *)
(***************************************************************************)
RedirectsOff == [k \in {"allow_redirects"} |-> FALSE]

\* self.default_options after construction; opts is None or Some(dict).
DefaultOptions(opts) ==
    IF opts.kind # "None" THEN DictUpdate(RedirectsOff, opts.val) ELSE RedirectsOff

(***************************************************************************)
(* errorlog and error_from_response                                        *)
(***************************************************************************)
\* The arguments of one errorlog invocation; status and body are optional.
ErrorLogArgs(type, error, method, url, detail, status, body) ==
    [type |-> type, error |-> error, method |-> method, url |-> url,
     detail |-> detail, status |-> status, body |-> body]

\* if body is not None: line += '\n%s' % body
WithBody(line, body) == IF body.kind # "None" THEN Append(line, <<"body", body.val>>) ELSE line

\* if status is not None: line += ' status=%s' % status
WithStatus(line, status) ==
    IF status.kind # "None" THEN Append(line, <<"status", status.val>>) ELSE line

\* errorlog: the line handed to log.error, as its parts in order.
ErrorLog(a) ==
    WithBody(WithStatus(<<"RESTClient", <<"type", a.type>>, <<"error", a.error>>,
                          <<"detail", a.detail>>, <<"req", a.method, a.url>> >>,
                        a.status),
             a.body)

PyDict(d) == [kind |-> "dict", val |-> d]

\* dict.get(key, default)
DictGet(d, key, default) == IF key \in DOMAIN d THEN d[key] ELSE default

AttributeError == [cls |-> "AttributeError", origin |-> "error_from_response"]

\* The finally block of error_from_response on the decoded payload: the
\* triple, or the error payload.get raises when the payload has no .get.
ExtractFrom(error_type, payload) ==
    IF payload.kind = "dict"
    THEN [raised |-> FALSE, error_type |-> error_type,
          error |-> DictGet(payload.val, "error", "-"),
          message |-> DictGet(payload.val, "message", "-")]
    ELSE [raised |-> TRUE, exc |-> AttributeError]

\* error_from_response(resp)
ErrorFromResponse(resp) ==
    ExtractFrom(IF resp.status_code < 500 THEN "client" ELSE "server",
                IF resp.json.kind = "raises" THEN PyDict(EmptyDict) ELSE resp.json.val)

(***************************************************************************)
(* RestClient.call, step by step.                                          *)
(***************************************************************************)
TypeError == [cls |-> "TypeError", origin |-> "call"]
IOError == [cls |-> "IOError", origin |-> "call"]
HTTPError == [cls |-> "HTTPError", origin |-> "raise_for_status"]

\* A type test that lets any iterable through, a str included.
IsSequenceOrStr(segments) == segments.kind \in {"tuple", "list", "str"}

\* isinstance(segments, tuple) or isinstance(segments, list)
IsSequence(segments) == segments.kind \in {"tuple", "list"}

\* headers.update({'Content-Type': 'application/json'}) on the headers dict
\* hd of kwargs: in place when the caller holds it.
WithContentType(k, hd, h) ==
    IF hd.kind = "ref"
    THEN [kwargs |-> DictUpdate(k, [x \in {"headers"} |-> hd]),
          heap |-> [h EXCEPT ![hd.val] = DictUpdate(@, ContentTypeJson)]]
    ELSE [kwargs |-> DictUpdate(k, [x \in {"headers"} |->
                                       Inline(DictUpdate(hd.val, ContentTypeJson))]),
          heap |-> h]

\* headers = kwargs.setdefault('headers', {}); headers.update(...)
SetContentType(k, h) ==
    WithContentType(k, IF "headers" \in DOMAIN k THEN k["headers"] ELSE Inline(EmptyDict), h)

\* The requests 1.x branch: json -> data, Content-Type injected into the
\* headers dict of kwargs (created when absent, updated in place otherwise).
LegacyConvert(legacy, kwargs, h) ==
    IF legacy /\ "json" \in DOMAIN kwargs
    THEN SetContentType(DictUpdate(DictWithout(kwargs, "json"),
                                   [k \in {"data"} |-> JsonDumps(kwargs["json"])]),
                        h)
    ELSE [kwargs |-> kwargs, heap |-> h]

\* The merge the other way round: the defaults win.
EffectiveOptionsDefaultsWin(defaults, kwargs) == DictUpdate(kwargs, defaults)

\* opts = self.default_options.copy(); opts.update(kwargs)
EffectiveOptions(defaults, kwargs) == DictUpdate(defaults, kwargs)

\* What session.request is called with: headers by their contents at that time.
Request(method, url, opts, h) == [method |-> method, url |-> url, opts |-> Deep(opts, h)]

\* A handler that wraps the transport error instead of re-raising it.
TransportFailureWrapped(method, url, exc) ==
    [outcome |-> "raised", exc |-> Some([cls |-> "IOError", origin |-> "call"]),
     returned |-> None, extracted |-> None,
     errorlog |-> <<ErrorLogArgs("failure", exc.cls, method, url, exc, None, None)>>]

\* except RequestException as exc: errorlog('failure', ...); raise
TransportFailure(method, url, exc) ==
    [outcome |-> "raised", exc |-> Some(exc), returned |-> None, extracted |-> None,
     errorlog |-> <<ErrorLogArgs("failure", exc.cls, method, url, exc, None, None)>>]

\* A redirect test that also asks for a 3xx status.
IsRedirectOnly3xx(resp) ==
    resp.is_redirect /\ 300 <= resp.status_code /\ resp.status_code < 400

\* if resp.is_redirect
IsRedirect(resp) == resp.is_redirect

\* errorlog('redirect', ...); raise IOError(...)
RedirectFailure(method, url, resp) ==
    [outcome |-> "raised", exc |-> Some(IOError), returned |-> None, extracted |-> None,
     errorlog |-> <<ErrorLogArgs("redirect", "redirect", method, url,
                                 resp.headers["location"],
                                 Some(resp.status_code), Some(resp.content))>>]

\* requests.Response.raise_for_status: HTTPError for 4xx and 5xx.
RaisesForStatus(resp) == 400 <= resp.status_code /\ resp.status_code < 600

\* What call does with the outcome e of error_from_response.
HttpFailureWith(method, url, resp, e) ==
    IF e.raised
    THEN [outcome |-> "raised", exc |-> Some(e.exc), returned |-> None,
          extracted |-> Some(e), errorlog |-> <<>>]
    ELSE [outcome |-> "raised", exc |-> Some(HTTPError), returned |-> None,
          extracted |-> Some(e),
          errorlog |-> <<ErrorLogArgs(e.error_type, e.error, method, url, e.message,
                                      Some(resp.status_code), Some(resp.content))>>]

\* except HTTPError: error_from_response, errorlog, raise
HttpFailure(method, url, resp) == HttpFailureWith(method, url, resp, ErrorFromResponse(resp))

\* Everything after session.request came back with or without a response.
AfterRequest(method, url, transport) ==
    IF transport.kind = "raise" THEN TransportFailure(method, url, transport.exc)
    ELSE IF IsRedirect(transport.resp) THEN RedirectFailure(method, url, transport.resp)
    ELSE IF RaisesForStatus(transport.resp) THEN HttpFailure(method, url, transport.resp)
    ELSE [outcome |-> "returned", exc |-> None, returned |-> Some(transport.resp),
          extracted |-> None, errorlog |-> <<>>]

\* The record of one call: its arguments, what it did and how it ended.
\* `extracted` is what error_from_response did, when the call ran it.
CallRecord(legacy, method, segments, kwargs, transport, url, requests, end) ==
    [legacy |-> legacy, method |-> method, segments |-> segments, kwargs |-> kwargs,
     transport |-> transport, url |-> url, requests |-> requests,
     outcome |-> end.outcome, exc |-> end.exc, returned |-> end.returned,
     extracted |-> end.extracted, errorlog |-> end.errorlog,
     log |-> [i \in 1..Len(end.errorlog) |-> ErrorLog(end.errorlog[i])]]

NoCall ==
    [legacy |-> FALSE, method |-> "-", segments |-> None, kwargs |-> EmptyDict,
     transport |-> None, url |-> None, requests |-> <<>>, outcome |-> "none",
     exc |-> None, returned |-> None, extracted |-> None, errorlog |-> <<>>, log |-> <<>>]

\* call from the URL on: conv is what the legacy branch left of kwargs and
\* of the caller's header dicts.
CallWith(method, segments, kwargs, transport, url, conv) ==
    /\ last' = CallRecord(requests_legacy, method, segments, kwargs, transport, Some(url),
                          <<Request(method, url,
                                    EffectiveOptions(default_options, conv.kwargs),
                                    conv.heap)>>,
                          AfterRequest(method, url, transport))
    /\ heap' = conv.heap

\* RestClient.call(method, segments, **kwargs) against a transport that
\* answers `transport`.
Call(method, segments, kwargs, transport) ==
    /\ IF ~IsSequence(segments)
       THEN /\ last' = CallRecord(requests_legacy, method, segments, kwargs, transport,
                                  None, <<>>,
                                  [outcome |-> "raised", exc |-> Some(TypeError),
                                   returned |-> None, extracted |-> None,
                                   errorlog |-> <<>>])
            /\ heap' = heap
       ELSE CallWith(method, segments, kwargs, transport,
                     UrlJoin(base_url, segments.val),
                     LegacyConvert(requests_legacy, kwargs, heap))
    /\ UNCHANGED <<base_url, default_options, requests_legacy, options>>

\* The escape hatch of the tests: client.requests_legacy = True
ForceLegacy ==
    /\ ~requests_legacy
    /\ requests_legacy' = TRUE
    /\ UNCHANGED <<base_url, default_options, options, heap, pending, last>>

(***************************************************************************)
(* Inputs.                                                                 *)
(***************************************************************************)
RECURSIVE SeqsUpTo(_, _)
SeqsUpTo(S, n) ==
    IF n = 0 THEN {<<>>}
    ELSE LET shorter == SeqsUpTo(S, n - 1)
         IN  shorter \cup {Append(s, x) : s \in {t \in shorter : Len(t) = n - 1}, x \in S}

HostUrl == <<"h", "t", "t", "p", ":", "/", "/", "x">>
HostUrlUpper == <<"H", "T", "T", "P", ":", "/", "/", "x">>
BaseA == HostUrl \o <<"/", "a">>

\* Base URLs with or without a scheme and a host, then any short tail.
TailChars == {"/", "a", "?", "#"}
SchemelessHost == <<"/", "/", "x">>
HostlessScheme == <<"h", "t", "t", "p", ":">>
BaseUrls ==
    {p \o t : p \in {HostUrl, HostUrlUpper, SchemelessHost, HostlessScheme},
              t \in SeqsUpTo(TailChars, MaxTail)}

\* One segment: text or an integer.
SegmentItems ==
    {PyStr(<<>>), PyStr(<<"a">>), PyStr(<<"/", "a">>), PyStr(<<".", ".">>),
     PyStr(<<"?", "b">>), PyStr(<<"#", "b">>), PyInt(12)}

SegmentLists ==
    {PyList(s) : s \in SeqsUpTo(SegmentItems, MaxSegs)}
    \cup {PyTuple(s) : s \in SeqsUpTo(SegmentItems, 1)}

\* A str argument, as the items its iteration yields.
StrArg(text) == [kind |-> "str", val |-> [i \in 1..Len(text) |-> PyStr(<<text[i]>>)]]

\* Arguments that are no tuple and no list.
NonSequences == {StrArg(<<"a", "b">>), [kind |-> "int", val |-> <<>>], None}

SomeSequences == {PyTuple(<<>>), PyList(<<PyStr(<<"b">>), PyInt(1)>>)}

Methods == {"GET", "PUT"}

\* What resp.json() does: raise, or return a decoded value.
JsonResults ==
    {[kind |-> "raises"]}
    \cup {[kind |-> "returns", val |-> PyDict(d)] :
            d \in {EmptyDict, [k \in {"error"} |-> "E"], [k \in {"message"} |-> "M"],
                   [k \in {"error", "message"} |-> IF k = "error" THEN "E" ELSE "M"]}}
    \cup {[kind |-> "returns", val |-> v] :
            v \in {PyList(<<PyInt(1)>>), PyStr(<<"s">>), PyInt(5), None}}

StatusCodes == {200, 301, 404, 500}

\* Responses of the transport.  A response flagged as a redirect carries a
\* location header (requests sets the flag only then); status code and
\* payload are free.
Response(r, c, j) ==
    [is_redirect |-> r, status_code |-> c, content |-> "BODY", json |-> j,
     headers |-> IF r THEN [k \in {"location"} |-> "LOC"] ELSE EmptyDict]

Responses ==
    {Response(FALSE, c, j) : c \in StatusCodes, j \in JsonResults}
    \cup {Response(TRUE, c, j) :
            c \in StatusCodes,
            j \in {[kind |-> "raises"], [kind |-> "returns", val |-> PyList(<<PyInt(1)>>)]}}

RequestExceptions ==
    {[cls |-> c, origin |-> "session.request"] : c \in {"ConnectionError", "Timeout", "MissingSchema"}}

Transports ==
    {[kind |-> "raise", exc |-> e] : e \in RequestExceptions}
    \cup {[kind |-> "response", resp |-> r] : r \in Responses}

OkResponse == Response(FALSE, 200, [kind |-> "raises"])

Ok == [kind |-> "response", resp |-> OkResponse]

\* Dicts over optional keys: every way to pick a value, or none, per key.
HeaderValues == {Ref(1), Ref(2), Inline([k \in {"X-Token"} |-> "inline"])}
JsonPayloads == {PyInt(7), PyStr(<<"[", "1", "\"">>), PyList(<<PyInt(1), PyInt(20)>>)}

Pick(key, values) == {EmptyDict} \cup {[k \in {key} |-> v] : v \in values}

Kwargs ==
    {DictUpdate(DictUpdate(DictUpdate(DictUpdate(a, b), c), d), e) :
        a \in Pick("timeout", {5}), b \in Pick("allow_redirects", {TRUE}),
        c \in Pick("headers", HeaderValues), d \in Pick("json", JsonPayloads),
        e \in Pick("data", {<<"d">>})}

CtorOptions ==
    {None, Some(EmptyDict), Some([k \in {"timeout"} |-> 3]),
     Some([k \in {"allow_redirects"} |-> TRUE]), Some([k \in {"headers"} |-> Ref(1)]),
     Some([k \in {"timeout", "headers"} |-> IF k = "timeout" THEN 3 ELSE Ref(1)])}

OneHeap == {<<[k \in {"X-Token"} |-> "t1"], [k \in {"X-Token"} |-> "t2"]>>}

Heaps ==
    {<<a, [k \in {"X-Token"} |-> "t2"]>> :
        a \in {[k \in {"X-Token"} |-> "t1"], [k \in {"Content-Type"} |-> "text/plain"]}}

(***************************************************************************)
(* Specifications.                                                         *)
(***************************************************************************)
\* The state right after RestClient(base, options=o).
Constructed(bases, ctorOptions, heaps, legacies) ==
    /\ base_url \in bases
    /\ options \in ctorOptions
    /\ default_options = DefaultOptions(options)
    /\ requests_legacy \in legacies
    /\ heap \in heaps
    /\ last = NoCall

\* Error handling: any sequence of calls, each ending in any way.
Init ==
    /\ Constructed({BaseA}, {None}, OneHeap, BOOLEAN)
    /\ pending = None

DoCall ==
    /\ \E m \in Methods, s \in SomeSequences \cup NonSequences, t \in Transports :
           Call(m, s, EmptyDict, t)
    /\ UNCHANGED pending

Next == DoCall \/ ForceLegacy

Spec == Init /\ [][Next]_vars

\* URL composition: a client on any base URL, called once with any segments.
InitUrl ==
    /\ Constructed(BaseUrls, {None}, OneHeap, {FALSE})
    /\ pending \in {Some(s) : s \in SegmentLists}

DoCallUrl ==
    /\ pending # None
    /\ Call("GET", pending.val, EmptyDict, Ok)
    /\ pending' = None

NextUrl == DoCallUrl

SpecUrl == InitUrl /\ [][NextUrl]_vars

\* Options: constructor options, then any sequence of calls with any
\* per-call options, in legacy mode or not.
InitOpts ==
    /\ Constructed({BaseA}, CtorOptions, Heaps, BOOLEAN)
    /\ pending = None

DoCallOpts ==
    /\ \E k \in Kwargs : Call("GET", PyTuple(<<>>), k, Ok)
    /\ UNCHANGED pending

NextOpts == DoCallOpts \/ ForceLegacy

SpecOpts == InitOpts /\ [][NextOpts]_vars

(***************************************************************************)
(* Properties of call, stated on the record of the latest call.            *)
(***************************************************************************)
ReachedTransport == last.requests # <<>>
GotResponse == ReachedTransport /\ last.transport.kind = "response"
Flagged == GotResponse /\ last.transport.resp.is_redirect
StatusError ==
    /\ GotResponse
    /\ ~last.transport.resp.is_redirect
    /\ last.transport.resp.status_code \in 400..599

\* C1: a response with the redirect flag set, whatever its status code and
\* payload, makes call raise IOError after exactly one errorlog invocation
\* ('redirect', 'redirect', method, url, Location header, status, body) and
\* exactly one transport invocation; it is never classified client or server.
C1_RedirectIsFailure ==
    Flagged =>
        /\ last.outcome = "raised"
        /\ last.exc = Some([cls |-> "IOError", origin |-> "call"])
        /\ last.errorlog =
             <<[type |-> "redirect", error |-> "redirect", method |-> last.method,
                url |-> last.url.val, detail |-> last.transport.resp.headers["location"],
                status |-> Some(last.transport.resp.status_code),
                body |-> Some(last.transport.resp.content)]>>
        /\ Len(last.log) = 1
        /\ Len(last.requests) = 1
        /\ \A i \in 1..Len(last.errorlog) : last.errorlog[i].type \notin {"client", "server"}

\* A flagged response whose status alone would have been an HTTP error.
C1_Witness ==
    /\ Flagged
    /\ last.transport.resp.status_code = 404
    /\ last.outcome = "raised"
    /\ Len(last.errorlog) = 1
    /\ last.errorlog[1].type = "redirect"

\* C2 as claimed: every unflagged response with an error status is logged
\* exactly once as client (status < 500) or server (status >= 500) with
\* the extracted error and message, the status and the body, and the HTTP
\* error of the status check is what call raises.
C2_HttpErrorLoggedAndReraised ==
    StatusError =>
        LET resp == last.transport.resp
            j == resp.json
            isObject == j.kind = "returns" /\ j.val.kind = "dict"
        IN  /\ Len(last.errorlog) = 1
            /\ last.errorlog[1].type = (IF resp.status_code < 500 THEN "client" ELSE "server")
            /\ last.errorlog[1].status = Some(resp.status_code)
            /\ last.errorlog[1].body = Some(resp.content)
            /\ isObject /\ "error" \in DOMAIN j.val.val =>
                   last.errorlog[1].error = j.val.val["error"]
            /\ isObject /\ "message" \in DOMAIN j.val.val =>
                   last.errorlog[1].detail = j.val.val["message"]
            /\ last.exc = Some([cls |-> "HTTPError", origin |-> "raise_for_status"])

\* C3: a segments argument that is no tuple and no list makes call raise
\* TypeError with the transport never invoked and no URL composed.
C3_NonSequenceRejected ==
    (last.outcome # "none" /\ last.segments.kind \notin {"tuple", "list"}) =>
        /\ last.outcome = "raised"
        /\ last.exc = Some([cls |-> "TypeError", origin |-> "call"])
        /\ last.requests = <<>>
        /\ last.url = None

\* A call with a bare string that ended in TypeError.
C3_Witness ==
    /\ last.outcome = "raised"
    /\ last.segments.kind = "str"
    /\ Len(last.segments.val) = 2
    /\ last.exc.val.cls = "TypeError"
    /\ last.requests = <<>>

\* C4: a failing transport is logged exactly once as ('failure', class name,
\* method, url, the error) with no status and no body, the same error is
\* re-raised, the transport was invoked exactly once, nothing is returned.
C4_TransportFailure ==
    (ReachedTransport /\ last.transport.kind = "raise") =>
        /\ last.errorlog =
             <<[type |-> "failure", error |-> last.transport.exc.cls,
                method |-> last.method, url |-> last.url.val,
                detail |-> last.transport.exc, status |-> None, body |-> None]>>
        /\ Len(last.log) = 1
        /\ Len(last.log[1]) = 5
        /\ last.outcome = "raised"
        /\ last.exc = Some(last.transport.exc)
        /\ Len(last.requests) = 1
        /\ last.returned = None

\* A timeout of the transport, logged and re-raised.
C4_Witness ==
    /\ ReachedTransport
    /\ last.transport.kind = "raise"
    /\ last.transport.exc.cls = "Timeout"
    /\ last.exc = Some(last.transport.exc)
    /\ Len(last.errorlog) = 1

\* C7 as claimed: error_from_response never raises, and yields "-" for the
\* error (the message) whenever the payload does not parse or is no object
\* with an 'error' (a 'message') key.
C7_ExtractionNeverRaises ==
    last.extracted # None =>
        LET e == last.extracted.val
            j == last.transport.resp.json
            isObject == j.kind = "returns" /\ j.val.kind = "dict"
        IN  /\ ~e.raised
            /\ ~(isObject /\ "error" \in DOMAIN j.val.val) => e.error = "-"
            /\ ~(isObject /\ "message" \in DOMAIN j.val.val) => e.message = "-"

\* C8 as claimed: a call that raises has invoked errorlog exactly once, a
\* call that returns has invoked it zero times.
C8_EveryFailureLoggedOnce ==
    /\ last.outcome = "raised" => Len(last.errorlog) = 1
    /\ last.outcome = "returned" => Len(last.errorlog) = 0

(***************************************************************************)
(* Properties of URL composition.                                          *)
(***************************************************************************)
\* A path followed by each text as one more component, a single "/"
\* between the path so far and the text.
RECURSIVE Followed(_, _)
Followed(path, texts) ==
    IF texts = <<>> THEN path
    ELSE LET t == Head(texts)
             closed == path # <<>> /\ path[Len(path)] = "/"
             opened == t # <<>> /\ t[1] = "/"
         IN  Followed(IF closed /\ opened THEN path \o Tail(t)
                      ELSE IF closed \/ opened THEN path \o t
                      ELSE path \o <<"/">> \o t,
                      Tail(texts))

SegmentTexts == [i \in 1..Len(last.segments.val) |-> Str(last.segments.val[i])]

\* The composed URL has the components of the base, and the base path (or
\* "/") followed by every segment.
ComposedLiterally ==
    LET b == UrlSplit(base_url)
        r == UrlSplit(last.url.val)
    IN  /\ r.scheme = b.scheme
        /\ r.netloc = b.netloc
        /\ r.query = b.query
        /\ r.fragment = b.fragment
        /\ r.path = Followed(IF b.path = <<>> THEN <<"/">> ELSE b.path, SegmentTexts)

\* C6 as claimed: for all base URLs and all segment sequences the composed
\* URL keeps scheme, host, query and fragment of the base and its path is
\* the base path followed by every segment in order.
C6_AnySegmentsLiteral == last.url # None => ComposedLiterally

PlainText(t) ==
    /\ t = <<>> \/ t[1] # "/"
    /\ \A i \in 1..Len(t) : t[i] \notin {"?", "#"}

\* C6, amended: the same for base URLs with a host and segments that do not
\* begin with "/" and hold no "?" and no "#".
C6_PlainSegmentsLiteral ==
    (/\ last.url # None
     /\ UrlSplit(base_url).netloc # <<>>
     /\ \A i \in 1..Len(SegmentTexts) : PlainText(SegmentTexts[i]))
        => ComposedLiterally

\* An empty segment and an integer appended to a base that has a query and
\* no path.
C6_Witness ==
    /\ last.url # None
    /\ last.segments.val = <<PyStr(<<>>), PyInt(12)>>
    /\ UrlSplit(base_url).path = <<>>
    /\ UrlSplit(base_url).query = <<"a">>
    /\ UrlSplit(last.url.val).path = <<"/", "1", "2">>
    /\ UrlSplit(last.url.val).query = <<"a">>

(***************************************************************************)
(* Properties of the options handed to the transport.                      *)
(***************************************************************************)
CtorDict == IF options = None THEN EmptyDict ELSE options.val
Sent == last.requests[1].opts
Converting == last.legacy /\ "json" \in DOMAIN last.kwargs

\* C5 as claimed: the options sent are {allow_redirects: False} overlaid
\* with the constructor options, overlaid with the per-call options.
C5_PerCallOverDefaults ==
    ReachedTransport =>
        Sent = Deep(DictUpdate(DictUpdate(RedirectsOff, CtorDict), last.kwargs), heap)

\* The per-call options as the legacy branch leaves them, by contents.
ConvertedKwargs ==
    IF Converting
    THEN LET own == IF "headers" \in DOMAIN last.kwargs
                    THEN Resolve(last.kwargs["headers"], heap)
                    ELSE EmptyDict
         IN  [k \in ((DOMAIN last.kwargs) \ {"json"}) \cup {"data", "headers"} |->
                 IF k = "data" THEN JsonDumps(last.kwargs["json"])
                 ELSE IF k = "headers" THEN DictUpdate(own, ContentTypeJson)
                 ELSE last.kwargs[k]]
    ELSE Deep(last.kwargs, heap)

\* C5, amended: the options sent are {allow_redirects: False} overlaid with
\* the constructor options, overlaid with the per-call options as the
\* legacy conversion leaves them; allow_redirects is False unless the
\* constructor or the call names it, and a default key the converted
\* per-call options do not name is sent with its default value.
C5_ConvertedOverDefaults ==
    ReachedTransport =>
        LET defaults == Deep(DictUpdate(RedirectsOff, CtorDict), heap)
        IN  /\ Sent = DictUpdate(defaults, ConvertedKwargs)
            /\ "allow_redirects" \notin (DOMAIN CtorDict) \cup (DOMAIN last.kwargs)
                   => Sent["allow_redirects"] = FALSE
            /\ \A k \in (DOMAIN defaults) \ (DOMAIN ConvertedKwargs) : Sent[k] = defaults[k]

\* A legacy call with a JSON payload overriding the default timeout.
C5_Witness ==
    /\ ReachedTransport
    /\ Converting
    /\ "timeout" \in DOMAIN CtorDict
    /\ "timeout" \in DOMAIN last.kwargs
    /\ Sent["timeout"] = 5
    /\ Sent["allow_redirects"] = FALSE
    /\ "json" \notin DOMAIN Sent

\* C9 as claimed: in legacy mode a JSON payload is sent as 'data' with
\* Content-Type: application/json among the headers and nothing else
\* altered: every other option and every header entry of the per-call or
\* default headers is sent as it would have been without the conversion;
\* without the flag or the payload the per-call options go unconverted.
C9_OnlyJsonConverted ==
    ReachedTransport =>
        LET plain == Deep(DictUpdate(default_options, last.kwargs), heap)
        IN  IF Converting
            THEN /\ "json" \notin DOMAIN Sent
                 /\ Sent["data"] = JsonDumps(last.kwargs["json"])
                 /\ Sent["headers"]["Content-Type"] = "application/json"
                 /\ \A k \in (DOMAIN plain) \ {"json", "data", "headers"} :
                        k \in DOMAIN Sent /\ Sent[k] = plain[k]
                 /\ "headers" \in DOMAIN plain =>
                        \A n \in (DOMAIN plain["headers"]) \ {"Content-Type"} :
                            n \in DOMAIN Sent["headers"]
                            /\ Sent["headers"][n] = plain["headers"][n]
            ELSE Sent = plain

\* C10 as claimed: no call changes the base URL or the default options.
C10_ConfigurationFrozen ==
    [][/\ base_url' = base_url
       /\ Deep(default_options, heap)' = Deep(default_options, heap)]_vars

====
